---- MODULE Spec2Model ----
(***************************************************************************)
(* Split management, preprocessing and hyperparameter resolution of the    *)
(* radiomics training harness.                                             *)
(*                                                                         *)
(*   autorad/data/dataset.py    FeatureDataset, TrainingData               *)
(*   classrad/data/dataset.py   Dataset                                    *)
(*   Radiomics/training/trainer.py   HyperparamOptimizer                   *)
(*                                                                         *)
(* The data table is a sequence of rows; a row's index label is its        *)
(* position in the table (pandas RangeIndex, counted from 1 here).         *)
(* A Python dict is a sequence of <<key, value>> pairs in insertion        *)
(* order, which is also the order of a JSON object on disk.                *)
(* An attribute that is None carries a flag beside its (empty) value.      *)
(* A local of a method is bound with \E x \in {e}, which evaluates e once.  *)
(***************************************************************************)
EXTENDS Integers, Sequences, FiniteSets, TLC

\* ------------------------------------------------------------- bounds
MaxRows == 4
MaxLoads == 2
MaxCalls == 2
MaxGrid == 2
MaxTrials == 3

\* config.SEED, the default of random_state and of the splitting utilities
SEED == 0

Ids == 1..MaxRows
Features == {"f1", "f2"}
Labels == {0, 1}
Seeds == {0, 1}
ColValues == {"train", "test"}
TestSizes == {<<1, 5>>, <<1, 2>>}
NSplits == {2, 3}
FoldNames == <<"fold_0", "fold_1", "fold_2", "fold_3", "fold_4", "fold_5">>

VARIABLES
    variant,        \* which Dataset class the object is: "autorad" | "classrad"
    df,             \* Dataset.df: the table, rows [id, label, col]
    random_state,   \* Dataset.random_state
    disk,           \* the split document at json_path (exists = FALSE: no file)
    err,            \* the exception the last operation raised, or "none"
    lastOp,         \* the last operation called and its arguments
    a,              \* FeatureDataset fields: _data, cv_splits
    c,              \* classrad Dataset fields
    log,            \* the calls made on the scaler / preprocessor, in order
    ret,            \* what the last operation returned
    h,              \* HyperparamOptimizer, its model and the files of param_dir
    t,              \* autorad Trainer: its models, the optuna study, what run() saved
    tr              \* Radiomics Trainer: the run, result_df, the predictions file

vars == <<variant, df, random_state, disk, err, lastOp, a, c, log, ret, h, t, tr>>

\* ------------------------------------------------------------- helpers
Range(s) == {s[i] : i \in DOMAIN s}

\* sorted(S) for a set of integers
RECURSIVE SortedSeq(_)
SortedSeq(S) ==
    IF S = {} THEN <<>>
    ELSE LET m == CHOOSE x \in S : \A y \in S : x <= y
         IN <<m>> \o SortedSeq(S \ {m})

\* the elements of S ordered by key (keys are distinct)
RECURSIVE SortBy(_, _)
SortBy(S, key) ==
    IF S = {} THEN <<>>
    ELSE LET m == CHOOSE x \in S : \A y \in S : key[x] <= key[y]
         IN <<m>> \o SortBy(S \ {m}, key)

\* dict[key]; KeyError is the caller's to check with HasKey
HasKey(dict, key) == \E i \in DOMAIN dict : dict[i][1] = key
Get(dict, key) == dict[CHOOSE i \in DOMAIN dict : dict[i][1] = key][2]
DictValues(dict) == [i \in DOMAIN dict |-> dict[i][2]]

FoldKey(i) == FoldNames[i + 1]

\* ------------------------------------------------ pandas on the table
Rows(d) == 1..Len(d)

\* isin on the index labels instead of the id column
IsInIndex(d, ids) == {r \in Rows(d) : r \in Range(ids)}

\* df[col].isin(ids): the boolean mask, as the set of row labels it selects
IsIn(d, ids) == {r \in Rows(d) : d[r].id \in Range(ids)}

\* DataFrame.drop_duplicates(): the first occurrence of every distinct row
RECURSIVE DropDupFrom(_, _)
DropDupFrom(s, seen) ==
    IF s = <<>> THEN <<>>
    ELSE IF Head(s) \in seen THEN DropDupFrom(Tail(s), seen)
    ELSE <<Head(s)>> \o DropDupFrom(Tail(s), seen \cup {Head(s)})

drop_duplicates(s) == DropDupFrom(s, {})

\* the uniqueness check left out
AnyIsUnique(s) == TRUE

\* Series.is_unique
is_unique(s) == \A i, j \in DOMAIN s : i # j => s[i] # s[j]

\* ---------------------------------------------- splitting (scikit-learn)
\* The shuffle a random_state selects: a permutation of 1..n fixed by the seed.
Shuffle(n, seed) == [i \in 1..n |-> ((i - 1 + seed) % n) + 1]

\* ceil(test_size * n) for test_size = num/den
NTest(n, test_size) == (n * test_size[1] + test_size[2] - 1) \div test_size[2]

\* train_test_split(..., stratify=labels, random_state=seed) over positions 1..n:
\* <<train positions, test positions>> in shuffled order.  The test set takes
\* from every label class in turn.
train_test_split(lab, test_size, seed) ==
    LET n == Len(lab)
        perm == Shuffle(n, seed)
        rank == [i \in 1..n |->
                    Cardinality({j \in 1..(i - 1) : lab[perm[j]] = lab[perm[i]]})]
        key == [i \in 1..n |-> rank[i] * (n + 1) + i]
        order == SortBy(1..n, key)
        testPlaces == {order[k] : k \in 1..NTest(n, test_size)}
        InTest(p) == \E i \in testPlaces : perm[i] = p
        InTrain(p) == ~InTest(p)
    IN <<SelectSeq(perm, InTrain), SelectSeq(perm, InTest)>>

\* train_test_split raises ValueError when a side would be empty
SplitFeasible(n, test_size) ==
    /\ n >= 1
    /\ NTest(n, test_size) >= 1
    /\ n - NTest(n, test_size) >= 1

\* StratifiedKFold(n_splits, shuffle=True, random_state=seed).split over
\* positions 1..m: fold_idx |-> <<train_idx, val_idx>> (sets of positions).
\* Every label class is dealt over the folds in turn.
StratifiedKFold(lab, n_splits, seed) ==
    LET m == Len(lab)
        perm == Shuffle(m, seed)
        key == [i \in 1..m |-> lab[perm[i]] * (m + 1) + i]
        order == SortBy(1..m, key)
        fold == [k \in 1..m |-> (k - 1) % n_splits]
        Val(f) == {perm[order[k]] : k \in {x \in 1..m : fold[x] = f}}
    IN [f \in 1..n_splits |-> <<(1..m) \ Val(f - 1), Val(f - 1)>>]

\* StratifiedKFold raises ValueError when n_splits exceeds the samples
KFoldFeasible(m, n_splits) == n_splits >= 2 /\ n_splits <= m

\* autorad.utils.splitting.split_cross_validation(ids, labels, n_splits, seed):
\* the dict fold_<i> |-> (train ids, validation ids)
split_cross_validation(ids, labels, n_splits, seed) ==
    LET cv == StratifiedKFold(labels, n_splits, seed)
        IdsAt(S) == [k \in 1..Cardinality(S) |-> ids[SortedSeq(S)[k]]]
    IN [f \in 1..n_splits |-> <<FoldKey(f - 1), <<IdsAt(cv[f][1]), IdsAt(cv[f][2])>>>>]

\* autorad.utils.splitting.split_full_dataset(ids, labels, test_size, n_splits):
\* the random_state parameter is left at its default
split_full_dataset(ids, labels, test_size, n_splits, seed) ==
    LET tt == train_test_split(labels, test_size, seed)
        ids_train == [k \in 1..Len(tt[1]) |-> ids[tt[1][k]]]
        y_train == [k \in 1..Len(tt[1]) |-> labels[tt[1][k]]]
        ids_test == [k \in 1..Len(tt[2]) |-> ids[tt[2][k]]]
    IN [split_type |-> "",
        test |-> ids_test,
        train |-> split_cross_validation(ids_train, y_train, n_splits, seed)]

FullSplitFeasible(n, test_size, n_splits) ==
    /\ SplitFeasible(n, test_size)
    /\ KFoldFeasible(n - NTest(n, test_size), n_splits)

\* ------------------------------------------------------------- io (JSON)
NoFile == [exists |-> FALSE, split_type |-> "", test |-> <<>>, train |-> <<>>]

\* autorad.utils.io.save_json(splits, path): the file the document becomes
save_json(splits) ==
    [exists |-> TRUE, split_type |-> splits.split_type,
     test |-> splits.test, train |-> splits.train]

\* ----------------------------------------------------------- operations
\* an operation that returns None or self
NoReturn == [kind |-> "none", frame |-> <<>>, columns |-> {}]

NoArgs == [test_size |-> <<0, 1>>, n_splits |-> 0, fold |-> 0, target |-> "", params |-> 0]

Op(name) == [op |-> name, args |-> NoArgs]
OpSplit(name, test_size, n_splits) ==
    [op |-> name, args |-> [NoArgs EXCEPT !.test_size = test_size, !.n_splits = n_splits]]
OpFold(name, i) == [op |-> name, args |-> [NoArgs EXCEPT !.fold = i]]

\* ------------------------------------------------------------ DataFrames
\* A feature value is a rational <<numerator, denominator>>; a DataFrame is a
\* sequence of [row |-> index label, f |-> column |-> value].
Raw(x) == <<x, 1>>

\* self.df[self.features]
FeaturesOf(d) == [i \in Rows(d) |-> [row |-> i, f |-> [k \in Features |-> Raw(d[i].f[k])]]]

Index(frame) == {frame[i].row : i \in DOMAIN frame}

\* frame.loc[mask]
Loc(frame, mask) == LET Keep(r) == r.row \in mask IN SelectSeq(frame, Keep)

\* frame.iloc[positions]
ILoc(frame, positions) ==
    [k \in 1..Cardinality(positions) |-> frame[SortedSeq(positions)[k]]]

LabelsOf(d, frame) == [k \in DOMAIN frame |-> d[frame[k].row].label]

IdsOfRows(d, rows) == {d[r].id : r \in rows}

\* --------------------------------------------------------- rationals
RECURSIVE Gcd(_, _)
Gcd(x, y) == IF y = 0 THEN x ELSE Gcd(y, x % y)

Abs(x) == IF x < 0 THEN -x ELSE x

\* lowest terms, positive denominator
Norm(q) ==
    LET g == Gcd(Abs(q[1]), Abs(q[2]))
        sgn == IF q[2] < 0 THEN -1 ELSE 1
    IN <<sgn * (q[1] \div g), sgn * (q[2] \div g)>>

RAdd(x, y) == Norm(<<x[1] * y[2] + y[1] * x[2], x[2] * y[2]>>)
RSub(x, y) == Norm(<<x[1] * y[2] - y[1] * x[2], x[2] * y[2]>>)
RMul(x, y) == Norm(<<x[1] * y[1], x[2] * y[2]>>)
RDiv(x, y) == Norm(<<x[1] * y[2], x[2] * y[1]>>)
RLeq(x, y) == x[1] * y[2] <= y[1] * x[2]

\* ------------------------------------------------ MinMaxScaler (sklearn)
\* frame.columns (every frame here has a row)
Columns(frame) == DOMAIN frame[1].f

\* MinMaxScaler(): nothing fitted
NotFitted ==
    [fitted |-> FALSE, columns |-> {},
     data_min |-> [k \in Features |-> Raw(0)], data_max |-> [k \in Features |-> Raw(0)]]

ColumnMin(frame, k) ==
    frame[CHOOSE i \in DOMAIN frame : \A j \in DOMAIN frame : RLeq(frame[i].f[k], frame[j].f[k])].f[k]
ColumnMax(frame, k) ==
    frame[CHOOSE i \in DOMAIN frame : \A j \in DOMAIN frame : RLeq(frame[j].f[k], frame[i].f[k])].f[k]

\* scaler.fit(frame): the per-column minimum and maximum of frame
Fit(frame) ==
    [fitted |-> TRUE,
     columns |-> Columns(frame),
     data_min |-> [k \in Columns(frame) |-> ColumnMin(frame, k)],
     data_max |-> [k \in Columns(frame) |-> ColumnMax(frame, k)]]

\* data_range, a zero range being replaced by 1 (_handle_zeros_in_scale)
DataRange(scaler, k) ==
    IF scaler.data_max[k] = scaler.data_min[k] THEN Raw(1)
    ELSE RSub(scaler.data_max[k], scaler.data_min[k])

\* scaler.transform(frame): (x - data_min) / data_range
Transform(scaler, frame) ==
    [i \in DOMAIN frame |->
        [row |-> frame[i].row,
         f |-> [k \in Columns(frame) |->
                  RDiv(RSub(frame[i].f[k], scaler.data_min[k]), DataRange(scaler, k))]]]

\* scaler.inverse_transform(frame): x * data_range + data_min
InverseTransform(scaler, frame) ==
    [i \in DOMAIN frame |->
        [row |-> frame[i].row,
         f |-> [k \in Columns(frame) |->
                  RAdd(RMul(frame[i].f[k], DataRange(scaler, k)), scaler.data_min[k])]]]

\* check_is_fitted(scaler) passes
check_is_fitted(scaler) == scaler.fitted

\* the frame has the columns the scaler was fitted on
SameFeatures(scaler, frame) == Columns(frame) = scaler.columns

\* frame[columns]
Select(frame, columns) ==
    [i \in DOMAIN frame |-> [row |-> frame[i].row, f |-> [k \in columns |-> frame[i].f[k]]]]

\* ------------------------------------------------------ FeatureDataset
\* the dataset as built: no partitions, no folds
NoData == [test |-> {}, train |-> {}, train_folds |-> <<>>, val_folds |-> <<>>]

\* _X_preprocessed = None
NoPreprocessed == [has |-> FALSE, columns |-> {}]

a0 == [hasData |-> FALSE, data |-> NoData, hasCv |-> FALSE, cv_splits |-> <<>>,
       X_preprocessed |-> NoPreprocessed]

\* self.df[[split_on, self.target]].drop_duplicates()
PatientDf(d) == drop_duplicates([i \in Rows(d) |-> <<d[i].id, d[i].label>>])

Column(frame, k) == [i \in DOMAIN frame |-> frame[i][k]]

\* FeatureDataset.full_split(save_path, test_size, n_splits)
a_full_split(test_size, n_splits) ==
    /\ variant = "autorad"
    /\ lastOp' = OpSplit("full_split", test_size, n_splits)
    /\ \E patient_df \in {PatientDf(df)} :
       \E ids \in {Column(patient_df, 1)} :
       \E labels \in {Column(patient_df, 2)} :
          IF ~is_unique(ids)
          THEN /\ err' = "ValueError: varying labels"
               /\ UNCHANGED disk
          ELSE IF ~FullSplitFeasible(Len(ids), test_size, n_splits)
          THEN /\ err' = "ValueError: split"
               /\ UNCHANGED disk
          ELSE /\ err' = "none"
               /\ disk' = save_json(split_full_dataset(ids, labels, test_size, n_splits, SEED))
    /\ UNCHANGED <<variant, df, random_state, a, c>>
    /\ UNCHANGED <<h, t, tr>>
    /\ UNCHANGED log
    /\ ret' = NoReturn

\* self.df[[split_on, split_label, column_name]].drop_duplicates()
DfToSplit(d) == drop_duplicates([i \in Rows(d) |-> <<d[i].id, d[i].label, d[i].col>>])

\* FeatureDataset.full_split_with_test_from_column(column_name, test_value,
\* save_path, n_splits), the column being col
a_full_split_with_test_from_column(test_value, n_splits) ==
    /\ variant = "autorad"
    /\ lastOp' = [OpSplit("full_split_with_test_from_column", <<0, 1>>, n_splits)
                    EXCEPT !.args.target = test_value]
    /\ \E df_to_split \in {DfToSplit(df)} :
       IF ~is_unique(Column(df_to_split, 1))
       THEN /\ err' = "ValueError: varying labels"
            /\ UNCHANGED disk
       ELSE LET IsTrain(r) == r[3] # test_value
                IsTest(r) == r[3] = test_value
            IN \E train_to_split \in {SelectSeq(df_to_split, IsTrain)} :
               \E ids_train \in {Column(train_to_split, 1)} :
               \E y_train \in {Column(train_to_split, 2)} :
               \E ids_test \in {Column(SelectSeq(df_to_split, IsTest), 1)} :
                  IF ~KFoldFeasible(Len(ids_train), n_splits)
                  THEN /\ err' = "ValueError: split"
                       /\ UNCHANGED disk
                  ELSE /\ err' = "none"
                       /\ disk' = save_json(
                             [split_type |-> "predefined test",
                              test |-> ids_test,
                              train |-> split_cross_validation(ids_train, y_train,
                                                               n_splits, random_state)])
    /\ UNCHANGED <<variant, df, random_state, a, c>>
    /\ UNCHANGED <<h, t, tr>>
    /\ UNCHANGED log
    /\ ret' = NoReturn

\* FeatureDataset.load_splits_from_json(json_path)
a_load_splits_from_json ==
    /\ variant = "autorad"
    /\ lastOp' = Op("load_splits_from_json")
    /\ IF ~disk.exists
       THEN /\ err' = "FileNotFoundError"
            /\ UNCHANGED a
       ELSE \E test_rows \in {IsIn(df, disk.test)} :
            \E train_rows \in {Rows(df) \ IsIn(df, disk.test)} :
            \E n_splits \in {Len(disk.train)} :
               IF \E i \in 0..(n_splits - 1) : ~HasKey(disk.train, FoldKey(i))
               THEN /\ err' = "KeyError"
                    /\ UNCHANGED a
               ELSE \E cv_splits \in {[i \in 1..n_splits |-> Get(disk.train, FoldKey(i - 1))]} :
                       /\ err' = "none"
                       /\ a' = [a EXCEPT
                                  !.hasData = TRUE,
                                  !.data =
                                     [test |-> test_rows,
                                      train |-> train_rows,
                                      train_folds |-> [i \in 1..n_splits |-> IsIn(df, cv_splits[i][1])],
                                      val_folds |-> [i \in 1..n_splits |-> IsIn(df, cv_splits[i][2])]],
                                  !.hasCv = TRUE,
                                  !.cv_splits = cv_splits]
    /\ UNCHANGED <<variant, df, random_state, disk, c>>
    /\ UNCHANGED <<h, t, tr>>
    /\ UNCHANGED log
    /\ ret' = NoReturn

\* ------------------------------------------------------ classrad Dataset
NoFolds == [isList |-> TRUE, list |-> <<>>, frame |-> <<>>]
AsFrame(frame) == [isList |-> FALSE, list |-> <<>>, frame |-> frame]

\* Dataset.__init__: the attributes the split operations use
c0(d) ==
    [X |-> FeaturesOf(d),
     hasTrain |-> FALSE, X_train |-> <<>>, X_test |-> <<>>,
     hasCv |-> FALSE, cv_splits |-> <<>>,
     X_train_fold |-> NoFolds, X_val_fold |-> NoFolds,
     hasBest |-> FALSE, best_features |-> {},
     scaler |-> NotFitted]

\* X_train.iloc[index] raises IndexError for a position outside the frame
InBounds(frame, positions) == positions \subseteq DOMAIN frame

\* the validation fold not cut out of X_train
WithFoldWhole(ds, split) ==
    [ds EXCEPT !.X_train_fold = AsFrame(ILoc(ds.X_train, split[1])),
               !.X_val_fold = AsFrame(ds.X_train)]

\* the training fold not cut out of X_train
WithFoldUncut(ds, split) ==
    [ds EXCEPT !.X_train_fold = AsFrame(ds.X_train),
               !.X_val_fold = AsFrame(ILoc(ds.X_train, split[2]))]

\* what get_cross_validation_fold(train_index, val_index) leaves in the dataset
WithFold(ds, split) ==
    [ds EXCEPT !.X_train_fold = AsFrame(ILoc(ds.X_train, split[1])),
               !.X_val_fold = AsFrame(ILoc(ds.X_train, split[2]))]

\* Dataset.get_cross_validation_fold(train_index, val_index), called with a
\* pair of cv_splits as Trainer.train_cross_validation does
c_get_cross_validation_fold(i) ==
    /\ variant = "classrad"
    /\ c.hasCv
    /\ i \in DOMAIN c.cv_splits
    /\ lastOp' = OpFold("get_cross_validation_fold", i)
    /\ IF InBounds(c.X_train, c.cv_splits[i][1] \cup c.cv_splits[i][2])
       THEN /\ err' = "none"
            /\ c' = WithFold(c, c.cv_splits[i])
       ELSE /\ err' = "IndexError"
            /\ UNCHANGED c
    /\ UNCHANGED <<variant, df, random_state, disk, a>>
    /\ UNCHANGED <<h, t, tr>>
    /\ UNCHANGED log
    /\ ret' = NoReturn

\* Dataset.cross_validation_split(n_splits, test_size), with
\* create_cross_validation_labels, which leaves the last fold in X_*_fold
c_cross_validation_split(n_splits, test_size) ==
    /\ variant = "classrad"
    /\ lastOp' = OpSplit("cross_validation_split", test_size, n_splits)
    /\ IF ~SplitFeasible(Len(df), test_size)
       THEN /\ err' = "ValueError: split"
            /\ UNCHANGED c
       ELSE \E tt \in {train_test_split(LabelsOf(df, c.X), test_size, random_state)} :
            \E X_train \in {[k \in DOMAIN tt[1] |-> c.X[tt[1][k]]]} :
            \E X_test \in {[k \in DOMAIN tt[2] |-> c.X[tt[2][k]]]} :
            \E c1 \in {[c EXCEPT !.hasTrain = TRUE, !.X_train = X_train, !.X_test = X_test]} :
            \E y \in {LabelsOf(df, X_train)} :  \* kf.split(self.X_train, self.y_train)
               IF ~KFoldFeasible(Len(y), n_splits)
               THEN /\ err' = "ValueError: split"
                    /\ c' = c1
               ELSE \E cv \in {StratifiedKFold(y, n_splits, random_state)} :
                    \E c2 \in {[c1 EXCEPT !.hasCv = TRUE, !.cv_splits = cv]} :
                       IF \A i \in DOMAIN cv : InBounds(X_train, cv[i][1] \cup cv[i][2])
                       THEN /\ err' = "none"
                            /\ c' = WithFold(c2, cv[Len(cv)])
                       ELSE /\ err' = "IndexError"
                            /\ c' = c2
    /\ UNCHANGED <<variant, df, random_state, disk, a>>
    /\ UNCHANGED <<h, t, tr>>
    /\ UNCHANGED log
    /\ ret' = NoReturn

\* Dataset.load_splits_from_json(json_path).  X_train_fold and X_val_fold are
\* appended to; once get_cross_validation_fold has made them DataFrames,
\* DataFrame.append returns a new frame that is dropped (pandas < 2) or is
\* no attribute at all (pandas >= 2).
c_load_splits_from_json(pandas2) ==
    /\ variant = "classrad"
    /\ disk.exists => Len(c.X_train_fold.list) < MaxLoads * Len(disk.train)
    /\ lastOp' = Op("load_splits_from_json")
    /\ IF ~disk.exists
       THEN /\ err' = "FileNotFoundError"
            /\ UNCHANGED c
       ELSE \E test_rows \in {IsIn(df, disk.test)} :
            \E train_rows \in {Rows(df) \ IsIn(df, disk.test)} :
            \E folds \in {DictValues(disk.train)} :
            \E c1 \in {[c EXCEPT !.hasTrain = TRUE,
                                 !.X_test = Loc(c.X, test_rows),
                                 !.X_train = Loc(c.X, train_rows)]} :
               IF c.X_train_fold.isList
               THEN /\ err' = "none"
                    /\ c' = [c1 EXCEPT
                               !.X_train_fold.list =
                                   @ \o [i \in DOMAIN folds |-> Loc(c.X, IsIn(df, folds[i][1]))],
                               !.X_val_fold.list =
                                   @ \o [i \in DOMAIN folds |-> Loc(c.X, IsIn(df, folds[i][2]))]]
               ELSE IF pandas2 /\ folds # <<>>
               THEN /\ err' = "AttributeError"
                    /\ c' = c1
               ELSE /\ err' = "none"
                    /\ c' = c1
    /\ UNCHANGED <<variant, df, random_state, disk, a>>
    /\ UNCHANGED <<h, t, tr>>
    /\ UNCHANGED log
    /\ ret' = NoReturn

\* a call on the scaler, as the log keeps it
Call(what, on) == [call |-> what, on |-> on]

\* Dataset.standardize_features().  X_val is None in every dataset the
\* operations here build.
c_standardize_features ==
    /\ variant = "classrad"
    /\ Len(log) < MaxCalls
    /\ lastOp' = Op("standardize_features")
    /\ ret' = NoReturn
    /\ IF ~c.hasTrain
       THEN /\ err' = "AttributeError"
            /\ UNCHANGED <<c, log>>
       ELSE \E scaler \in {Fit(c.X_train)} :
               /\ err' = "none"
               /\ c' = [c EXCEPT !.scaler = scaler,
                                 !.X_train = Transform(scaler, c.X_train),
                                 !.X_test = Transform(scaler, c.X_test),
                                 !.X = Transform(scaler, c.X)]
               /\ log' = Append(log, Call("fit", "X_train"))
    /\ UNCHANGED <<variant, df, random_state, disk, a>>
    /\ UNCHANGED <<h, t, tr>>

\* Dataset.standardize_features_cross_validation().  The right-hand side is
\* evaluated first: fit() resets the scaler and then rejects a list.
c_standardize_features_cross_validation ==
    /\ variant = "classrad"
    /\ Len(log) < MaxCalls
    /\ lastOp' = Op("standardize_features_cross_validation")
    /\ ret' = NoReturn
    /\ IF c.X_train_fold.isList
       THEN /\ err' = "ValueError: array"
            /\ c' = [c EXCEPT !.scaler = NotFitted]
            /\ log' = Append(log, Call("reset", "X_train_fold"))
       ELSE \E scaler \in {Fit(c.X_train_fold.frame)} :
               /\ err' = "none"
               /\ c' = [c EXCEPT !.scaler = scaler,
                                 !.X_train_fold.frame = Transform(scaler, c.X_train_fold.frame),
                                 !.X_val_fold.frame = Transform(scaler, c.X_val_fold.frame)]
               /\ log' = Append(log, Call("fit", "X_train_fold"))
    /\ UNCHANGED <<variant, df, random_state, disk, a>>
    /\ UNCHANGED <<h, t, tr>>

\* the frames inverse_standardize is called on
Targets == {"X", "X_train", "X_test"}
TargetFrame(ds, target) ==
    IF target = "X" THEN ds.X ELSE IF target = "X_train" THEN ds.X_train ELSE ds.X_test
WithTarget(ds, target, frame) ==
    IF target = "X" THEN [ds EXCEPT !.X = frame]
    ELSE IF target = "X_train" THEN [ds EXCEPT !.X_train = frame]
    ELSE [ds EXCEPT !.X_test = frame]

\* Dataset.inverse_standardize(X), X being one of the dataset's own frames:
\* the frame is written in place and returned
c_inverse_standardize(target) ==
    /\ variant = "classrad"
    /\ Len(log) < MaxCalls
    /\ target = "X" \/ c.hasTrain
    /\ lastOp' = [op |-> "inverse_standardize", args |-> [NoArgs EXCEPT !.target = target]]
    /\ \E X \in {TargetFrame(c, target)} :
       IF ~check_is_fitted(c.scaler)
       THEN /\ err' = "NotFittedError"
            /\ ret' = NoReturn
            /\ UNCHANGED <<c, log>>
       ELSE IF ~SameFeatures(c.scaler, X)
       THEN /\ err' = "ValueError: features"
            /\ ret' = NoReturn
            /\ UNCHANGED <<c, log>>
       ELSE \E inv \in {InverseTransform(c.scaler, X)} :
               /\ err' = "none"
               /\ c' = WithTarget(c, target, inv)
               /\ ret' = [NoReturn EXCEPT !.kind = "frame", !.frame = inv]
               /\ log' = Append(log, Call("inverse_transform", target))
    /\ UNCHANGED <<variant, df, random_state, disk, a>>
    /\ UNCHANGED <<h, t, tr>>

\* Dataset.select_features(k): the k best columns of X_train become
\* best_features
c_select_features(k) ==
    /\ variant = "classrad"
    /\ lastOp' = Op("select_features")
    /\ ret' = NoReturn
    /\ IF ~c.hasTrain
       THEN /\ err' = "AttributeError"
            /\ UNCHANGED c
       ELSE \E best \in {S \in SUBSET Columns(c.X_train) : Cardinality(S) = k} :
               /\ err' = "none"
               /\ c' = [c EXCEPT !.hasBest = TRUE, !.best_features = best]
    /\ UNCHANGED <<variant, df, random_state, disk, a, log>>
    /\ UNCHANGED <<h, t, tr>>

\* best_features is not None
HasBestFeatures(ds) == ds.hasBest

\* Dataset.drop_unselected_features_from_X(); optimized: the interpreter
\* runs with -O and skips the assert
c_drop_unselected_features_from_X(optimized) ==
    /\ variant = "classrad"
    /\ lastOp' = Op("drop_unselected_features_from_X")
    /\ ret' = NoReturn
    /\ IF ~HasBestFeatures(c)
       THEN /\ err' = IF ~optimized THEN "AssertionError"
                      ELSE IF c.hasTrain THEN "KeyError" ELSE "TypeError"
            /\ UNCHANGED c
       ELSE /\ err' = "none"
            /\ c' = [c EXCEPT !.X_train = Select(c.X_train, c.best_features),
                              !.X_test = Select(c.X_test, c.best_features),
                              !.X = Select(c.X, c.best_features)]
    /\ UNCHANGED <<variant, df, random_state, disk, a, log>>
    /\ UNCHANGED <<h, t, tr>>

\* -------------------------------------- TrainingData and autorad Trainer
\* Preprocessor.fit_transform(data): fits on the training partition and
\* leaves the preprocessed partitions, with the selected columns, in data
Preprocessor_fit_transform(ds, columns) ==
    [ds EXCEPT !.X_preprocessed = [has |-> TRUE, columns |-> columns]]

\* Trainer.save_best_preprocessor(study), the study being one of a run
\* with or without auto_preprocess
t_save_best_preprocessor(auto_preprocess) ==
    /\ variant = "autorad"
    /\ Len(log) < MaxCalls
    /\ lastOp' = Op("save_best_preprocessor")
    /\ ret' = NoReturn
    /\ IF ~auto_preprocess
       THEN /\ err' = "KeyError"
            /\ UNCHANGED <<a, log>>
       ELSE IF ~a.hasData
       THEN /\ err' = "AttributeError"
            /\ UNCHANGED <<a, log>>
       ELSE \E columns \in (SUBSET Features) \ {{}} :
               /\ err' = "none"
               /\ a' = Preprocessor_fit_transform(a, columns)
               /\ log' = Append(log, Call("fit", "X_train"))
    /\ UNCHANGED <<variant, df, random_state, disk, c>>
    /\ UNCHANGED <<h, t, tr>>

\* the check left out
PreprocessingAssumed(ds) == FALSE

\* self._X_preprocessed is None
PreprocessingNotPerformed(ds) == ~ds.X_preprocessed.has

\* TrainingData.X_preprocessed, read from dataset.data
a_X_preprocessed ==
    /\ variant = "autorad"
    /\ a.hasData
    /\ lastOp' = Op("X_preprocessed")
    /\ IF PreprocessingNotPerformed(a)
       THEN /\ err' = "ValueError: not performed"
            /\ ret' = NoReturn
       ELSE /\ err' = "none"
            /\ ret' = [NoReturn EXCEPT !.kind = "data", !.columns = a.X_preprocessed.columns]
    /\ UNCHANGED <<variant, df, random_state, disk, a, c, log>>
    /\ UNCHANGED <<h, t, tr>>

\* TrainingData.selected_features, read from dataset.data
a_selected_features ==
    /\ variant = "autorad"
    /\ a.hasData
    /\ lastOp' = Op("selected_features")
    /\ IF PreprocessingNotPerformed(a)
       THEN /\ err' = "ValueError: not performed"
            /\ ret' = NoReturn
       ELSE /\ err' = "none"
            /\ ret' = [NoReturn EXCEPT !.kind = "columns", !.columns = a.X_preprocessed.columns]
    /\ UNCHANGED <<variant, df, random_state, disk, a, c, log>>
    /\ UNCHANGED <<h, t, tr>>

\* ------------------------------------------ autorad Trainer (optuna)
\* the names of Trainer.models; there is one instance per name
TrialModels == {"Random Forest", "SVM"}

\* the points of a model's param_fn, and mean AUC values as ranks
TrialParams == {1, 2}
Scores == {1, 2}

\* an MLClassifier instance: its parameters and the trial of its last
\* successful fit (0 for none)
NewModel == [params |-> 0, fit_trial |-> 0]

NoSaved == [exists |-> FALSE, name |-> "", params |-> 0, fit_trial |-> 0]

\* result_dir / "preprocessed.pkl"
NoPkl == [exists |-> FALSE, n_folds |-> 0]

\* Trainer.__init__ and set_optimizer("optuna", n_trials): no study yet
t0 ==
    [status |-> "idle", stage |-> "", auto_preprocess |-> FALSE, n_trials |-> MaxTrials,
     pkl |-> NoPkl, trials |-> <<>>, models |-> [m \in TrialModels |-> NewModel],
     best_params |-> NoSaved, logged_model |-> NoSaved]

\* train_utils.get_model_by_name(name, models): the instance of that name
get_model_by_name(name, models) == models[name]

\* Trainer.set_optuna_params(model, trial): model.set_params(**params)
set_optuna_params(model, params) == [model EXCEPT !.params = params]

\* data.iter_training(): one (train, validation) pair per fold
iter_training(data) == [i \in DOMAIN data.train_folds |-> <<data.train_folds[i], data.val_folds[i]>>]

\* what the loop over the folds does in a trial: every fit and every
\* score succeeds and the mean AUC is auc, or the fit of one fold raises, or
\* the scoring of one fold (predict_proba_binary, roc_auc_score) raises;
\* all_fit: the fit of every fold succeeded
FitOutcomes(n_folds) ==
    [raises : {"none"}, at : {"fit"}, fold : {n_folds}, auc : Scores, all_fit : {TRUE}]
    \cup [raises : {"ValueError", "RuntimeError"}, at : {"fit"}, fold : {1, n_folds},
           auc : {1}, all_fit : {FALSE}]
    \cup {[raises |-> "ValueError", at |-> "score", fold |-> f, auc |-> 1,
           all_fit |-> (f = n_folds)] : f \in {1, n_folds}}

\* model.fit in the loop over the folds: the instance after the fits made
\* before the one that raised
FitFolds(model, number, outcome) ==
    IF outcome.raises = "none" \/ outcome.fold > 1 \/ outcome.at = "score"
    THEN [model EXCEPT !.fit_trial = number]
    ELSE model

\* a trial of the study. failed: a fit raised in it; fitted: the fit of
\* every fold succeeded; value 0: no value; attrs: the user attributes
\* 'model' (the instance named name) and 'AUC' are set, auc being the latter
Trial(number, name, params, failed, fitted, state, value, attrs, auc) ==
    [number |-> number, name |-> name, params |-> params, failed |-> failed,
     fitted |-> fitted, state |-> state, value |-> value, attrs |-> attrs, auc |-> auc]

\* the failed fit scored as the lowest AUC
ScoreLowest(number, name, params) ==
    Trial(number, name, params, TRUE, FALSE, "COMPLETE", 1, FALSE, 0)

\* except ValueError: return np.nan -- the study fails a trial that returns nan
ReturnNan(number, name, params) ==
    Trial(number, name, params, TRUE, FALSE, "FAIL", 0, FALSE, 0)

\* auc = np.mean(aucs); set_user_attr("model", model);
\* set_user_attr("AUC", auc); return auc
SetUserAttrs(number, name, params, auc) ==
    Trial(number, name, params, FALSE, TRUE, "COMPLETE", auc, TRUE, auc)

\* except ValueError
Catches(raises) == raises = "ValueError"

\* Trainer._objective(trial, auto_preprocess) under study.optimize, from
\* the suggestion of the model on: the trial it leaves in the study and
\* the exception that leaves optimize, if any
Objective(number, name, params, outcome) ==
    IF outcome.raises = "none"
    THEN [trial |-> SetUserAttrs(number, name, params, outcome.auc), err |-> "none"]
    ELSE IF outcome.at = "score"
    THEN [trial |-> Trial(number, name, params, FALSE, outcome.all_fit, "FAIL", 0, FALSE, 0),
          err |-> outcome.raises]
    ELSE IF Catches(outcome.raises)
    THEN [trial |-> ReturnNan(number, name, params), err |-> "none"]
    ELSE [trial |-> Trial(number, name, params, TRUE, FALSE, "FAIL", 0, FALSE, 0),
          err |-> outcome.raises]

\* the trials that completed
Completed(trials) == {i \in DOMAIN trials : trials[i].state = "COMPLETE"}

\* study.best_trial of a study with a completed trial: the first of those
\* with the highest value
BestTrial(trials) ==
    trials[CHOOSE i \in Completed(trials) :
              \A j \in Completed(trials) :
                  \/ trials[j].value < trials[i].value
                  \/ (trials[j].value = trials[i].value /\ i <= j)]

\* Trainer.run(auto_preprocess) up to study.optimize: the study is made
t_run(auto_preprocess) ==
    /\ variant = "autorad"
    /\ t.status = "idle"
    /\ lastOp' = Op("run")
    /\ err' = "none"
    /\ ret' = NoReturn
    /\ t' = [t EXCEPT !.status = "optimizing", !.stage = "optimize",
                      !.auto_preprocess = auto_preprocess]
    /\ UNCHANGED <<variant, df, random_state, disk, a, c, log, h, tr>>

\* the trial stopped before a model is suggested
NoModelTrial(number) == Trial(number, "", 0, FALSE, FALSE, "FAIL", 0, FALSE, 0)

\* one trial of study.optimize: Trainer._objective(trial, auto_preprocess)
t_objective(name, params, outcome) ==
    /\ variant = "autorad"
    /\ t.status = "optimizing" /\ t.stage = "optimize"
    /\ Len(t.trials) < t.n_trials
    /\ lastOp' = Op("_objective")
    /\ ret' = NoReturn
    /\ \E number \in {Len(t.trials) + 1} :
          IF t.auto_preprocess /\ ~t.pkl.exists
          THEN /\ err' = "FileNotFoundError"
               /\ t' = [t EXCEPT !.status = "aborted",
                                 !.trials = Append(@, NoModelTrial(number))]
          ELSE IF ~t.auto_preprocess /\ ~a.hasData
          THEN /\ err' = "AttributeError"
               /\ t' = [t EXCEPT !.status = "aborted",
                                 !.trials = Append(@, NoModelTrial(number))]
          ELSE \E n_folds \in {IF t.auto_preprocess THEN t.pkl.n_folds
                               ELSE Len(iter_training(a.data))} :
               \E model \in {set_optuna_params(get_model_by_name(name, t.models), params)} :
               \E res \in {Objective(number, name, params, outcome)} :
                  /\ outcome \in FitOutcomes(n_folds)
                  /\ err' = res.err
                  /\ t' = [t EXCEPT
                             !.status = IF res.err = "none" THEN @ ELSE "aborted",
                             !.trials = Append(@, res.trial),
                             !.models[name] = FitFolds(model, number, outcome)]
    /\ UNCHANGED <<variant, df, random_state, disk, a, c, log, h, tr>>

\* the rest of Trainer.run once the budget of trials is spent:
\* save_best_params, save_best_preprocessor, save_best_model
t_save_best ==
    /\ variant = "autorad"
    /\ t.status = "optimizing" /\ t.stage = "optimize"
    /\ Len(t.trials) = t.n_trials
    /\ lastOp' = Op("save_best")
    /\ ret' = NoReturn
    /\ IF Completed(t.trials) = {}
       THEN /\ err' = "ValueError: no trials are completed"
            /\ t' = [t EXCEPT !.status = "aborted", !.stage = "save_best_params"]
            /\ UNCHANGED <<a, log>>
       ELSE \E best \in {BestTrial(t.trials)} :
            \E saved \in {[exists |-> TRUE, name |-> best.name, params |-> best.params,
                           fit_trial |-> best.number]} :
               IF ~t.auto_preprocess
               THEN /\ err' = "KeyError"
                    /\ t' = [t EXCEPT !.status = "aborted", !.stage = "save_best_preprocessor",
                                      !.best_params = saved]
                    /\ UNCHANGED <<a, log>>
               ELSE IF ~a.hasData
               THEN /\ err' = "AttributeError"
                    /\ t' = [t EXCEPT !.status = "aborted", !.stage = "save_best_preprocessor",
                                      !.best_params = saved]
                    /\ UNCHANGED <<a, log>>
               ELSE \E columns \in (SUBSET Features) \ {{}} :
                    \E best_model \in {get_model_by_name(best.name, t.models)} :
                       /\ err' = "none"
                       /\ a' = Preprocessor_fit_transform(a, columns)
                       /\ log' = Append(log, Call("fit", "X_train"))
                       /\ t' = [t EXCEPT
                                  !.status = "done", !.stage = "save_best_model",
                                  !.best_params = saved,
                                  !.logged_model =
                                     [exists |-> TRUE, name |-> best.name,
                                      params |-> best_model.params,
                                      fit_trial |-> best_model.fit_trial]]
    /\ UNCHANGED <<variant, df, random_state, disk, c, h, tr>>

\* ------------------------------------------------- HyperparamOptimizer
\* classifier names: those get_param_grid knows, and the models in use, one
\* of which it does not know
Supported == {"Random Forest", "XGBoost", "Logistic Regression", "SVM"}
ModelNames == {"Random Forest", "Logistic Regression", "SVM", "KNN"}

\* Parameters: 0 is what the model was built with, 1..MaxGrid are the points
\* of a parameter grid.
GridPoints == 1..MaxGrid

\* <classifier_name>.json in param_dir: absent, unreadable, or a record
NoParams == [exists |-> FALSE, valid |-> FALSE, params |-> 0]
Corrupted == [exists |-> TRUE, valid |-> FALSE, params |-> 0]
Record(params) == [exists |-> TRUE, valid |-> TRUE, params |-> params]
ParamFiles == {NoParams, Corrupted} \cup {Record(g) : g \in GridPoints}

\* HyperparamOptimizer.__init__(dataset, model, param_dir) with a new model;
\* loaded and searched tell what the last operation did
h0(name, files) ==
    [name |-> name, params |-> 0, param_grid |-> "None", files |-> files,
     loaded |-> FALSE, searched |-> FALSE]

Fresh(o) == [o EXCEPT !.loaded = FALSE, !.searched = FALSE]

\* the outcome of an operation on the optimizer
Done(o) == [o |-> o, err |-> "none"]
Raised(o, e) == [o |-> o, err |-> e]

\* else: return ValueError(...) -- the error is returned, not raised
UnsupportedGrid(o) == Done(o)

\* HyperparamOptimizer.get_param_grid()
get_param_grid(o) ==
    IF o.name = "Random Forest" THEN Done([o EXCEPT !.param_grid = "RandomForest"])
    ELSE IF o.name = "XGBoost" THEN Done([o EXCEPT !.param_grid = "XGBoost"])
    ELSE IF o.name = "Logistic Regression" THEN Done([o EXCEPT !.param_grid = "LogReg"])
    ELSE IF o.name = "SVM" THEN Done([o EXCEPT !.param_grid = "SVM"])
    ELSE UnsupportedGrid(o)

\* one file for every model: the classifier name left out of the path
save_params_shared(o, params, mkdir_ok) ==
    IF ~mkdir_ok THEN [o |-> o, err |-> "FileNotFoundError"]
    ELSE [o |-> [o EXCEPT !.files = [m \in DOMAIN o.files |->
                                       [exists |-> TRUE, valid |-> TRUE, params |-> params]]],
          err |-> "none"]

\* HyperparamOptimizer.save_params(params); mkdir_ok: param_dir.mkdir
\* succeeds (the parent directory exists)
save_params(o, params, mkdir_ok) ==
    IF ~mkdir_ok THEN Raised(o, "FileNotFoundError")
    ELSE Done([o EXCEPT !.files[o.name] = Record(params)])

\* what GridSearchCV.fit and the file system do in one call
Outcomes ==
    [fit_ok : {TRUE}, best : GridPoints, mkdir_ok : BOOLEAN]
    \cup {[fit_ok |-> FALSE, best |-> 1, mkdir_ok |-> TRUE]}

\* HyperparamOptimizer.update_model_params_grid_search()
update_model_params_grid_search(o, outcome) ==
    IF o.param_grid = "None" THEN Raised(o, "ValueError: First select param grid!")
    ELSE IF ~outcome.fit_ok THEN Raised([o EXCEPT !.searched = TRUE], "ValueError: fit")
    ELSE save_params([o EXCEPT !.searched = TRUE, !.params = outcome.best],
                     outcome.best, outcome.mkdir_ok)

\* HyperparamOptimizer.load_params()
load_params(o) ==
    IF o.files[o.name].exists
    THEN IF ~o.files[o.name].valid THEN Raised(o, "JSONDecodeError")
         ELSE Done([o EXCEPT !.params = o.files[o.name].params, !.loaded = TRUE])
    ELSE Raised(o, "FileNotFoundError")

\* HyperparamOptimizer.tune_hyperparameters(): except Exception: pass
tune_hyperparameters(o, outcome) ==
    LET g == get_param_grid(o)
    IN IF g.err # "none" THEN Done(g.o)
       ELSE Done(update_model_params_grid_search(g.o, outcome).o)

\* HyperparamOptimizer.load_or_tune_hyperparameters()
load_or_tune_hyperparameters(o, outcome) ==
    LET l == load_params(o)
    IN IF l.err = "none" THEN l ELSE tune_hyperparameters(l.o, outcome)

\* a method of the optimizer ends as res says, returning value unless it raised
Ends(res, value) ==
    /\ err' = res.err
    /\ h' = res.o
    /\ ret' = [NoReturn EXCEPT !.kind = IF res.err = "none" THEN value ELSE "none"]
    /\ UNCHANGED <<variant, df, random_state, disk, a, c, log, t, tr>>

h_get_param_grid ==
    /\ lastOp' = Op("get_param_grid")
    /\ Ends(get_param_grid(Fresh(h)), "self")

h_load_params ==
    /\ lastOp' = Op("load_params")
    /\ Ends(load_params(Fresh(h)), "self")

h_save_params(params, mkdir_ok) ==
    /\ lastOp' = [op |-> "save_params", args |-> [NoArgs EXCEPT !.params = params]]
    /\ Ends(save_params(Fresh(h), params, mkdir_ok), "none")

h_update_model_params_grid_search(outcome) ==
    /\ lastOp' = Op("update_model_params_grid_search")
    /\ Ends(update_model_params_grid_search(Fresh(h), outcome), "self")

h_tune_hyperparameters(outcome) ==
    /\ lastOp' = Op("tune_hyperparameters")
    /\ Ends(tune_hyperparameters(Fresh(h), outcome), "self")

h_load_or_tune_hyperparameters(outcome) ==
    /\ lastOp' = Op("load_or_tune_hyperparameters")
    /\ Ends(load_or_tune_hyperparameters(Fresh(h), outcome), "model")

\* Trainer.train_cross_validation builds an optimizer for the next model
h_init(name) ==
    /\ lastOp' = Op("HyperparamOptimizer")
    /\ err' = "none"
    /\ h' = h0(name, h.files)
    /\ ret' = NoReturn
    /\ UNCHANGED <<variant, df, random_state, disk, a, c, log, t, tr>>

\* ------------------------------------------------- Radiomics Trainer
\* the value a prediction column holds before a prediction is written
Sentinel == -1

\* model.predict_label_and_proba(X): a label and a probability rank for
\* every row of X, given by the parameters the model carries
predict_label_and_proba(params, frame) ==
    [i \in DOMAIN frame |->
        [row |-> frame[i].row, y |-> (params + frame[i].row) % 2,
         proba |-> (params + frame[i].row) % 2]]

\* the columns made with 0
ZeroColumn(d) == [has |-> TRUE, pred |-> [x \in Rows(d) |-> 0], proba |-> [x \in Rows(d) |-> 0]]

\* result_df[column] = -1
SentinelColumn(d) == [has |-> TRUE, pred |-> [x \in Rows(d) |-> Sentinel],
                      proba |-> [x \in Rows(d) |-> Sentinel]]

NoColumn(d) == [has |-> FALSE, pred |-> [x \in Rows(d) |-> Sentinel],
                proba |-> [x \in Rows(d) |-> Sentinel]]

\* self.result_df = None.  index is the sequence of the row labels of the
\* table and ids its ID column; the other columns are keyed by row label.
NoResult(d) ==
    [has |-> FALSE, index |-> <<>>, ids |-> <<>>,
     test |-> [x \in Rows(d) |-> 0], cv_split |-> [x \in Rows(d) |-> Sentinel],
     cols |-> [n \in ModelNames |-> NoColumn(d)]]

\* the rows taken last to first
ReversedIndex(d) == [i \in Rows(d) |-> Len(d) + 1 - i]

\* the index of self.dataset.df[self.meta_colnames]: that of df
ResultIndex(d) == [i \in Rows(d) |-> i]

\* self.dataset.df[self.meta_colnames].copy(), the ID column among them
MetaCopy(d) ==
    [NoResult(d) EXCEPT !.has = TRUE, !.index = ResultIndex(d),
                        !.ids = [i \in Rows(d) |-> d[ResultIndex(d)[i]].id]]

NoCsv(d) == [exists |-> FALSE, writes |-> 0, df |-> NoResult(d)]

\* the file an earlier run over the same models has left in result_dir:
\* every row predicted 0, no row held out
EarlierCsv(d, models) ==
    [exists |-> TRUE, writes |-> 0,
     df |-> [MetaCopy(d) EXCEPT
               !.cv_split = [x \in Rows(d) |-> 0],
               !.cols = [n \in ModelNames |->
                           IF \E i \in DOMAIN models : models[i] = n
                           THEN [has |-> TRUE, pred |-> [x \in Rows(d) |-> 0],
                                 proba |-> [x \in Rows(d) |-> 0]]
                           ELSE NoColumn(d)]]]

\* the steps train_cross_validation has made
Event(step, model, fold, resolved) ==
    [step |-> step, model |-> model, fold |-> fold, resolved |-> resolved]

\* Trainer.__init__(dataset, models, result_dir, ...).  written counts the
\* predictions a cell has received, out is what the last print() calls named.
r0(models, d) ==
    [status |-> "idle", models |-> models, m |-> 0, pos |-> "init_result_df", fold |-> 0,
     result_df |-> NoResult(d), test_indices |-> {},
     written |-> [n \in ModelNames |-> [x \in Rows(d) |-> 0]],
     fitted_on |-> [n \in ModelNames |-> [x \in Rows(d) |-> {}]],
     csv |-> NoCsv(d), out |-> [model |-> "", fold |-> Sentinel], events |-> <<>>]

\* self.dataset.X_train.index[val_idx] for fold i
ValRows(ds, i) == Index(ILoc(ds.X_train, ds.cv_splits[i][2]))

\* the folds init_result_df can label before X_train.index[val_idx] raises
Labelled(ds) ==
    {i \in DOMAIN ds.cv_splits :
        \A j \in 1..i : InBounds(ds.X_train, ds.cv_splits[j][2])}

\* the cv_split column: fold indices count from 0, a later fold overwrites
CvSplitColumn(d, ds) ==
    [x \in Rows(d) |->
        IF \E i \in Labelled(ds) : x \in ValRows(ds, i)
        THEN (CHOOSE i \in Labelled(ds) :
                 /\ x \in ValRows(ds, i)
                 /\ \A j \in Labelled(ds) : x \in ValRows(ds, j) => j <= i) - 1
        ELSE Sentinel]

\* Trainer.init_result_df()
init_result_df(d, ds) ==
    IF ~ds.hasTrain
    THEN [err |-> "AttributeError", df |-> MetaCopy(d), test |-> {}]
    ELSE \* test: 1 on the rows of X_test
         LET flagged == [MetaCopy(d) EXCEPT
                           !.test = [x \in Rows(d) |-> IF x \in Index(ds.X_test) THEN 1 ELSE 0]]
         IN IF ~ds.hasCv
            THEN [err |-> "TypeError", df |-> flagged, test |-> Index(ds.X_test)]
            ELSE [err |-> IF Labelled(ds) = DOMAIN ds.cv_splits THEN "none" ELSE "IndexError",
                  df |-> [flagged EXCEPT !.cv_split = CvSplitColumn(d, ds)],
                  test |-> Index(ds.X_test)]

\* result_df.loc[rows, pred_colname] = y; result_df.loc[rows, pred_proba_colname] = proba
WritePredictions(column, preds) ==
    [column EXCEPT
       !.pred = [x \in DOMAIN @ |->
                   IF \E i \in DOMAIN preds : preds[i].row = x
                   THEN preds[CHOOSE i \in DOMAIN preds : preds[i].row = x].y ELSE @[x]],
       !.proba = [x \in DOMAIN @ |->
                   IF \E i \in DOMAIN preds : preds[i].row = x
                   THEN preds[CHOOSE i \in DOMAIN preds : preds[i].row = x].proba ELSE @[x]]]

\* the cells a write of predictions reaches
CountWrites(written, rows) == [x \in DOMAIN written |-> written[x] + (IF x \in rows THEN 1 ELSE 0)]

\* the run stops with an exception
\* model.fit(X, y) followed by predict_label_and_proba and the write on
\* `rows`: each written row remembers the rows of the frame the predicting
\* model was fitted on
RecordFit(fitted_on, rows, X) ==
    [x \in DOMAIN fitted_on |-> IF x \in rows THEN fitted_on[x] \cup Index(X) ELSE fitted_on[x]]

Fails(run, e) ==
    /\ err' = e
    /\ tr' = [run EXCEPT !.status = "failed"]

\* train_cross_validation(), line 44: init_result_df
r_init_result_df ==
    /\ variant = "classrad"
    /\ tr.status = "idle"
    /\ lastOp' = Op("init_result_df")
    /\ ret' = NoReturn
    /\ \E res \in {init_result_df(df, c)} :
       \E run \in {[tr EXCEPT !.result_df = res.df, !.test_indices = res.test,
                             !.events = Append(@, Event("init_result_df", 0, 0, FALSE))]} :
          IF res.err # "none"
          THEN Fails(run, res.err)
          ELSE /\ err' = "none"
               /\ tr' = [run EXCEPT !.status = "running", !.pos = "preprocess"]
    /\ UNCHANGED <<variant, df, random_state, disk, a, c, log, h, t>>

\* train_cross_validation(), lines 46-47: standardize_features, then
\* select_features with num_features the number of columns
r_preprocess ==
    /\ variant = "classrad"
    /\ tr.status = "running" /\ tr.pos = "preprocess"
    /\ lastOp' = Op("select_features")
    /\ ret' = NoReturn
    /\ err' = "none"
    /\ \E scaler \in {Fit(c.X_train)} :
          /\ c' = [c EXCEPT !.scaler = scaler,
                            !.X_train = Transform(scaler, c.X_train),
                            !.X_test = Transform(scaler, c.X_test),
                            !.X = Transform(scaler, c.X),
                            !.hasBest = TRUE,
                            !.best_features = Columns(c.X_train)]
          /\ log' = Append(log, Call("fit", "X_train"))
    /\ tr' = [tr EXCEPT
               !.events = @ \o <<Event("standardize_features", 0, 0, FALSE),
                                 Event("select_features", 0, 0, FALSE)>>,
               !.m = IF tr.models = <<>> THEN 0 ELSE 1,
               !.pos = IF tr.models = <<>> THEN "save" ELSE "model"]
    /\ UNCHANGED <<variant, df, random_state, disk, a, h, t>>

\* the model has parameters of a search or of a cache file
Resolved(o) == o.params # 0

\* train_cross_validation(), lines 50-63: the columns of the next model are
\* set to -1, its optimizer is built and load_or_tune_hyperparameters called
r_model(outcome) ==
    /\ variant = "classrad"
    /\ tr.status = "running" /\ tr.pos = "model"
    /\ lastOp' = Op("load_or_tune_hyperparameters")
    /\ ret' = NoReturn
    /\ err' = "none"
    /\ \E name \in {tr.models[tr.m]} :
       \E res \in {load_or_tune_hyperparameters(h0(name, h.files), outcome)} :
          /\ h' = res.o
          /\ tr' = [tr EXCEPT
                     !.result_df.cols[name] = SentinelColumn(df),
                     !.out = [model |-> name, fold |-> Sentinel],
                     !.events = Append(@, Event("params", tr.m, 0, Resolved(res.o))),
                     !.pos = "fold", !.fold = 1]
    /\ UNCHANGED <<variant, df, random_state, disk, a, c, log, t>>

\* the next fold, or the full fit after the last one
AfterFold(run, n_folds) ==
    IF run.fold < n_folds THEN [run EXCEPT !.fold = @ + 1] ELSE [run EXCEPT !.pos = "full", !.fold = 0]

\* the table saved as soon as a model is done
AfterModelSaved(run) == [run EXCEPT !.pos = "save"]

\* the next model, or the saving after the last one
AfterModel(run) ==
    IF run.m < Len(run.models) THEN [run EXCEPT !.m = @ + 1, !.pos = "model"]
    ELSE [run EXCEPT !.pos = "save"]

\* train_cross_validation(), lines 65-85, for one fold: the fold is taken,
\* the model fitted on it, the validation rows predicted and written
r_fold(fit_ok) ==
    /\ variant = "classrad"
    /\ tr.status = "running" /\ tr.pos = "fold"
    /\ lastOp' = OpFold("fit_fold", tr.fold)
    /\ ret' = NoReturn
    /\ UNCHANGED <<variant, df, random_state, disk, a, log, h, t>>
    /\ \E name \in {tr.models[tr.m]} :
       \E run \in {[tr EXCEPT !.out.fold = tr.fold - 1]} :
          IF ~InBounds(c.X_train, c.cv_splits[tr.fold][1] \cup c.cv_splits[tr.fold][2])
          THEN /\ Fails(run, "IndexError")
               /\ UNCHANGED c
          ELSE \E ds \in {WithFold(c, c.cv_splits[tr.fold])} :
               /\ c' = ds
               /\ IF ~fit_ok
                  THEN Fails(run, "fit")
                  ELSE \E preds \in {predict_label_and_proba(h.params, ds.X_val_fold.frame)} :
                          /\ err' = "none"
                          /\ tr' = AfterFold(
                                [run EXCEPT
                                   !.result_df.cols[name] = WritePredictions(@, preds),
                                   !.written[name] = CountWrites(@, Index(ds.X_val_fold.frame)),
                                   !.fitted_on[name] = RecordFit(@, Index(ds.X_val_fold.frame),
                                                                ds.X_train_fold.frame),
                                   !.events = Append(@, Event("fit_fold", tr.m, tr.fold, FALSE))],
                                Len(c.cv_splits))

\* train_cross_validation(), lines 87-94: the fit on X_train, the
\* prediction of X_test written on the rows of test_indices
r_full(fit_ok) ==
    /\ variant = "classrad"
    /\ tr.status = "running" /\ tr.pos = "full"
    /\ lastOp' = Op("fit")
    /\ ret' = NoReturn
    /\ UNCHANGED <<variant, df, random_state, disk, a, c, log, h, t>>
    /\ \E name \in {tr.models[tr.m]} :
          IF ~fit_ok
          THEN Fails(tr, "fit")
          ELSE \E preds \in {predict_label_and_proba(h.params, Loc(c.X_test, tr.test_indices))} :
                  /\ err' = "none"
                  /\ tr' = AfterModel(
                        [tr EXCEPT
                           !.result_df.cols[name] = WritePredictions(@, preds),
                           !.written[name] = CountWrites(@, tr.test_indices),
                           !.fitted_on[name] = RecordFit(@, tr.test_indices, c.X_train),
                           !.events = Append(@, Event("full_fit", tr.m, 0, FALSE))])

\* Trainer.save_results(), the last step of train_cross_validation
r_save_results ==
    /\ variant = "classrad"
    /\ tr.status = "running" /\ tr.pos = "save"
    /\ lastOp' = Op("save_results")
    /\ ret' = NoReturn
    /\ err' = "none"
    /\ tr' = [tr EXCEPT !.status = "done", !.pos = "end",
                      !.csv = [exists |-> TRUE, writes |-> @.writes + 1, df |-> tr.result_df],
                      !.events = Append(@, Event("save_results", 0, 0, FALSE))]
    /\ UNCHANGED <<variant, df, random_state, disk, a, c, log, h, t>>

\* ------------------------------------------------------------ the table
NoFeatures == [k \in Features |-> 0]

\* ids are named in the order they first occur in the table
Canonical(d) ==
    \A i \in Rows(d) : \A x \in 1..(d[i].id - 1) : \E j \in 1..(i - 1) : d[j].id = x

Tables(rows) == {d \in UNION {[1..n -> rows] : n \in 1..MaxRows} : Canonical(d)}

\* the table read in another row order
Reordered(d) == {[i \in Rows(d) |-> d[p[i]]] : p \in Permutations(Rows(d))}

\* the split documents an earlier full_split() has made of a table
Documents(d) ==
    LET patient_df == PatientDf(d)
        ids == Column(patient_df, 1)
        labels == Column(patient_df, 2)
    IN {save_json(split_full_dataset(ids, labels, p[1], p[2], SEED)) :
          p \in {q \in TestSizes \X NSplits :
                   is_unique(ids) /\ FullSplitFeasible(Len(ids), q[1], q[2])}}

EarlierDocuments(v, d) ==
    IF v = "autorad" THEN UNION {Documents(x) : x \in Reordered(d)} ELSE Documents(d)

InitDataset(variants, tables, earlier) ==
    /\ variant \in variants
    /\ df \in tables
    /\ disk \in {NoFile} \cup (IF earlier THEN EarlierDocuments(variant, df) ELSE {})
    /\ err = "none"
    /\ lastOp = Op("__init__")
    /\ a = a0
    /\ c = c0(df)
    /\ log = <<>>
    /\ ret = NoReturn
    /\ h = h0("SVM", [m \in ModelNames |-> NoParams])
    /\ t = t0
    /\ tr = r0(<<>>, df)

\* Of the operations here only cross_validation_split reads random_state.
InitSplit ==
    /\ InitDataset({"autorad", "classrad"},
                   Tables([id : Ids, label : Labels, col : {"train"}, f : {NoFeatures}]), TRUE)
    /\ random_state \in IF variant = "classrad" THEN Seeds ELSE {SEED}

NextSplit ==
    \/ \E ts \in TestSizes, k \in NSplits : a_full_split(ts, k)
    \/ a_load_splits_from_json
    \/ \E ts \in TestSizes, k \in NSplits : c_cross_validation_split(k, ts)
    \/ \E i \in 1..Len(c.cv_splits) : c_get_cross_validation_fold(i)
    \/ \E p \in BOOLEAN : c_load_splits_from_json(p)

Spec == InitSplit /\ [][NextSplit]_vars

\* Building split documents from tables that carry a train/test column.
InitBuild ==
    /\ InitDataset({"autorad"},
                   Tables([id : Ids, label : Labels, col : ColValues, f : {NoFeatures}]), FALSE)
    /\ random_state \in Seeds

NextBuild ==
    \/ \E ts \in TestSizes, k \in NSplits : a_full_split(ts, k)
    \/ \E k \in NSplits : a_full_split_with_test_from_column("test", k)
    \/ a_load_splits_from_json

SpecBuild == InitBuild /\ [][NextBuild]_vars

\* Preprocessing: tables with one row per id; a feature column is constant
\* (step 0) or differs from row to row (row i carries i modulo 3).
PrepTables ==
    {[i \in 1..n |-> [id |-> i, label |-> i % 2, col |-> "train",
                      f |-> [k \in Features |-> (step[k] * i) % 3]]] :
        n \in {MaxRows}, step \in [Features -> {0, 1}]}

InitPrep ==
    /\ variant \in {"autorad", "classrad"}
    /\ random_state = SEED
    /\ df \in PrepTables
    /\ disk \in IF variant = "autorad" THEN {NoFile} \cup Documents(df) ELSE {NoFile}
    /\ err = "none"
    /\ lastOp = Op("__init__")
    /\ a = a0
    /\ c = c0(df)
    /\ log = <<>>
    /\ ret = NoReturn
    /\ h = h0("SVM", [m \in ModelNames |-> NoParams])
    /\ t = t0
    /\ tr = r0(<<>>, df)

NextPrep ==
    \/ \E ts \in TestSizes, k \in NSplits : c_cross_validation_split(k, ts)
    \/ c_standardize_features
    \/ c_standardize_features_cross_validation
    \/ \E target \in Targets : c_inverse_standardize(target)
    \/ c_select_features(1)
    \/ \E optimized \in BOOLEAN : c_drop_unselected_features_from_X(optimized)
    \/ a_load_splits_from_json
    \/ \E auto_preprocess \in BOOLEAN : t_save_best_preprocessor(auto_preprocess)
    \/ a_X_preprocessed
    \/ a_selected_features

SpecPrep == InitPrep /\ [][NextPrep]_vars

\* Hyperparameter resolution: any model name, any content of param_dir.
InitTune ==
    /\ variant = "classrad"
    /\ random_state = SEED
    /\ df = [i \in 1..MaxRows |-> [id |-> i, label |-> i % 2, col |-> "train", f |-> NoFeatures]]
    /\ disk = NoFile
    /\ err = "none"
    /\ lastOp = Op("__init__")
    /\ a = a0
    /\ c = c0(df)
    /\ log = <<>>
    /\ ret = NoReturn
    /\ \E name \in ModelNames, files \in [ModelNames -> ParamFiles] : h = h0(name, files)
    /\ t = t0
    /\ tr = r0(<<>>, df)

NextTune ==
    \/ \E name \in ModelNames : h_init(name)
    \/ h_get_param_grid
    \/ h_load_params
    \/ \E params \in GridPoints, mkdir_ok \in BOOLEAN : h_save_params(params, mkdir_ok)
    \/ \E outcome \in Outcomes : h_update_model_params_grid_search(outcome)
    \/ \E outcome \in Outcomes : h_tune_hyperparameters(outcome)
    \/ \E outcome \in Outcomes : h_load_or_tune_hyperparameters(outcome)

SpecTune == InitTune /\ [][NextTune]_vars

\* Trial search: a table, its split document on disk or none, the pickle
\* of the preprocessed data in result_dir or none; run() blocks its caller.
InitTrial ==
    /\ variant = "autorad"
    /\ random_state = SEED
    /\ df = [i \in 1..MaxRows |-> [id |-> i, label |-> i % 2, col |-> "train", f |-> NoFeatures]]
    /\ disk \in {NoFile} \cup Documents(df)
    /\ err = "none"
    /\ lastOp = Op("__init__")
    /\ a = a0
    /\ c = c0(df)
    /\ log = <<>>
    /\ ret = NoReturn
    /\ h = h0("SVM", [m \in ModelNames |-> NoParams])
    /\ t \in {[t0 EXCEPT !.pkl = p] : p \in {NoPkl, [exists |-> TRUE, n_folds |-> 2]}}
    /\ tr = r0(<<>>, df)

NextTrial ==
    \/ (t.status = "idle" /\ a_load_splits_from_json)
    \/ \E auto_preprocess \in BOOLEAN : t_run(auto_preprocess)
    \/ \E name \in TrialModels, params \in TrialParams,
          outcome \in UNION {FitOutcomes(k) : k \in NSplits} :
          t_objective(name, params, outcome)
    \/ t_save_best

SpecTrial == InitTrial /\ [][NextTrial]_vars

\* A training run: the dataset is split (or its split loaded) by the
\* caller, then train_cross_validation runs to its end or to an exception;
\* result_dir is new or holds the predictions file of an earlier run.
RunModels == {<<"SVM">>, <<"SVM", "KNN">>, <<"KNN", "SVM">>}

InitRun ==
    /\ variant = "classrad"
    /\ random_state = SEED
    /\ df = [i \in 1..MaxRows |-> [id |-> i, label |-> i % 2, col |-> "train", f |-> NoFeatures]]
    /\ disk \in {NoFile} \cup Documents(df)
    /\ err = "none"
    /\ lastOp = Op("__init__")
    /\ a = a0
    /\ c = c0(df)
    /\ log = <<>>
    /\ ret = NoReturn
    /\ \E f \in ParamFiles : h = h0("SVM", [m \in ModelNames |-> IF m = "SVM" THEN f ELSE NoParams])
    /\ t = t0
    /\ \E models \in RunModels :
       \E csv \in {NoCsv(df), EarlierCsv(df, models)} :
          tr = [r0(models, df) EXCEPT !.csv = csv]

NextRun ==
    \/ \E ts \in TestSizes, k \in NSplits : tr.status = "idle" /\ c_cross_validation_split(k, ts)
    \/ \E p \in BOOLEAN : tr.status = "idle" /\ c_load_splits_from_json(p)
    \/ r_init_result_df
    \/ r_preprocess
    \/ \E outcome \in Outcomes : r_model(outcome)
    \/ \E fit_ok \in BOOLEAN : r_fold(fit_ok)
    \/ \E fit_ok \in BOOLEAN : r_full(fit_ok)
    \/ r_save_results

SpecRun == InitRun /\ [][NextRun]_vars
\* ============================================================== claims
AllIds(d) == {d[r].id : r \in Rows(d)}

\* S, a sequence of sets: pairwise disjoint, disjoint from T, and covering
\* All together with T
IsAssignment(T, S, All) ==
    /\ \A i \in DOMAIN S : T \cap S[i] = {}
    /\ \A i, j \in DOMAIN S : i # j => S[i] \cap S[j] = {}
    /\ T \cup UNION {S[i] : i \in DOMAIN S} = All

DocValidationIds(doc) == [i \in DOMAIN doc.train |-> Range(doc.train[i][2][2])]

C2_LoadReproducesIdSets ==
    (variant = "autorad" /\ lastOp.op = "load_splits_from_json" /\ err = "none") =>
        /\ IdsOfRows(df, a.data.test) = Range(disk.test)
        /\ Len(a.data.train_folds) = Len(disk.train)
        /\ Len(a.data.val_folds) = Len(disk.train)
        /\ \A i \in 1..Len(disk.train) :
              /\ IdsOfRows(df, a.data.train_folds[i]) = Range(Get(disk.train, FoldKey(i - 1))[1])
              /\ IdsOfRows(df, a.data.val_folds[i]) = Range(Get(disk.train, FoldKey(i - 1))[2])

\* a document loaded into a table whose row order is not the one the
\* document was made from
C2_Witness ==
    /\ variant = "autorad"
    /\ lastOp.op = "load_splits_from_json"
    /\ err = "none"
    /\ a.data.test # {}
    /\ disk \notin Documents(df)

\* C8: the fold sequence the dataset holds after a load has exactly one
\* (train, validation) pair per fold of the document, in fold-index order.
C8_OnePairPerStoredFold ==
    (lastOp.op = "load_splits_from_json" /\ err = "none") =>
        IF variant = "autorad"
        THEN /\ a.hasCv
             /\ Len(a.cv_splits) = Len(disk.train)
             /\ \A i \in DOMAIN a.cv_splits : a.cv_splits[i] = Get(disk.train, FoldKey(i - 1))
        ELSE /\ c.X_train_fold.isList
             /\ Len(c.X_train_fold.list) = Len(disk.train)
             /\ Len(c.X_val_fold.list) = Len(disk.train)
             /\ \A i \in DOMAIN c.X_train_fold.list :
                   /\ IdsOfRows(df, Index(c.X_train_fold.list[i]))
                         = Range(Get(disk.train, FoldKey(i - 1))[1])
                   /\ IdsOfRows(df, Index(c.X_val_fold.list[i]))
                         = Range(Get(disk.train, FoldKey(i - 1))[2])
\* some id of the table carries more than one label
InconsistentIDLabel(d) == \E i, j \in Rows(d) : d[i].id = d[j].id /\ d[i].label # d[j].label

\* C3: building a split fails with the inconsistent-id-label error exactly
\* when some id maps to more than one distinct label, at every split-building
\* entry point.
C3_FailsExactlyOnInconsistentLabels ==
    lastOp.op \in {"full_split", "full_split_with_test_from_column"} =>
        (err = "ValueError: varying labels" <=> InconsistentIDLabel(df))

\* C4: the seed held by the dataset governs the build: the document
\* full_split writes is the one random_state selects.
C4_DatasetSeedGoverns ==
    (lastOp.op = "full_split" /\ err = "none") =>
        disk = save_json(split_full_dataset(Column(PatientDf(df), 1), Column(PatientDf(df), 2),
                                            lastOp.args.test_size, lastOp.args.n_splits,
                                            random_state))

\* the partitions the scaler was fitted on, in order
FittedOn == LET IsFit(e) == e.call = "fit" IN [i \in DOMAIN SelectSeq(log, IsFit) |-> SelectSeq(log, IsFit)[i].on]

\* C5: over any sequence of operations on a Dataset, its scaler is fitted at
\* most once, and only on the training partition.
C5_FittedOnceOnTrain ==
    variant = "classrad" =>
        /\ Len(FittedOn) <= 1
        /\ \A i \in DOMAIN FittedOn : FittedOn[i] = "X_train"

\* C6: the feature values and the column set of the Dataset's full table X
\* are those of df, whatever was materialized, standardized or selected.
C6_SourceTableUnchanged == c.X = FeaturesOf(df)

UnfittedErrors == {"NotFittedError", "AssertionError", "KeyError", "TypeError"}

\* C7: requesting an inverse transform with an unfitted scaler, the drop of
\* unselected features with no feature selected, or the preprocessed data or
\* selected-feature list of a TrainingData that was not preprocessed, fails:
\* the error is raised, nothing is returned, and no partition changes.
C7_UnfittedRequestFails ==
    [][/\ (lastOp'.op = "inverse_standardize" /\ ~c.scaler.fitted) =>
             (err' = "NotFittedError" /\ c' = c /\ ret'.kind = "none")
       /\ (lastOp'.op = "drop_unselected_features_from_X" /\ ~c.hasBest) =>
             (err' \in UnfittedErrors /\ c' = c /\ ret'.kind = "none")
       /\ (lastOp'.op \in {"X_preprocessed", "selected_features"} /\ ~a.X_preprocessed.has) =>
             (err' = "ValueError: not performed" /\ a' = a /\ ret'.kind = "none")]_vars

\* an inverse transform of the training partition was refused because the
\* scaler is not fitted
C7_Witness ==
    /\ lastOp.op = "inverse_standardize"
    /\ lastOp.args.target = "X_train"
    /\ err = "NotFittedError"
    /\ c.hasTrain
    /\ ~c.scaler.fitted

\* C9: when load_or_tune_hyperparameters returns after the cached record
\* could not be loaded, the model's parameter file exists and holds the
\* parameters set on the returned model.
C9_CacheMissEndsCached ==
    (lastOp.op = "load_or_tune_hyperparameters" /\ ~h.loaded) =>
        /\ ret.kind = "model"
        /\ h.files[h.name] = Record(h.params)

\* C10: load_or_tune_hyperparameters with no cache file searches and writes
\* the file; with a readable cache file it sets the cached parameters on the
\* model and makes no search.
C10_LoadOrTuneIdempotent ==
    [][lastOp'.op = "load_or_tune_hyperparameters" =>
          /\ ~h.files[h.name].exists => (h'.searched /\ h'.files[h.name].exists)
          /\ h.files[h.name].valid =>
                (~h'.searched /\ h'.params = h.files[h.name].params /\ h'.files = h.files)]_vars

\* C11: for a model whose name is none of the supported ones the grid
\* strategy fails: get_param_grid and the search raise the not-implemented
\* error to their caller, and load_or_tune_hyperparameters does not return
\* the model as if it had been tuned.
C11_UnsupportedModelFails ==
    h.name \notin Supported =>
        /\ lastOp.op \in {"get_param_grid", "tune_hyperparameters"} =>
              err = "ValueError: not implemented"
        /\ (lastOp.op = "load_or_tune_hyperparameters" /\ ~h.loaded) => ret.kind # "model"

\* C20: save_params leaves exactly one record for the optimizer's model, the
\* one just saved, in place of whatever the file held, and changes no other
\* model's file; load_params sets on the model what the file holds; and no
\* operation ever changes the file of a model with another name.
C20_SaveOverwritesOwnRecordOnly ==
    [][/\ (lastOp'.op = "save_params" /\ err' = "none") =>
             h'.files = [h.files EXCEPT ![h.name] = Record(lastOp'.args.params)]
       /\ (lastOp'.op = "save_params" /\ err' # "none") => h'.files = h.files
       /\ (lastOp'.op = "load_params" /\ h.files[h.name].valid) =>
             (err' = "none" /\ h'.params = h.files[h.name].params /\ h'.files = h.files)
       /\ \A m \in ModelNames \ {h.name} : h'.files[m] = h.files[m]]_vars

\* a record was saved over the model's file while another model's file
\* holds a different record
C20_Witness ==
    /\ lastOp.op = "save_params"
    /\ err = "none"
    /\ h.files[h.name] = Record(lastOp.args.params)
    /\ \E m \in ModelNames \ {h.name} :
          h.files[m].valid /\ h.files[m].params # lastOp.args.params

\* C12: no failure of a model's fit inside a trial aborts the search: the
\* search is never left during study.optimize by a trial whose fit raised.
C12_FitFailureNeverAbortsSearch ==
    ~(/\ t.status = "aborted"
      /\ t.stage = "optimize"
      /\ t.trials # <<>>
      /\ t.trials[Len(t.trials)].failed)

\* C13: a trial whose fit failed is in the study with state FAIL and no
\* value; no trial ever leaves or changes in the history; and once the
\* search is over with some trial that succeeded, the parameters saved as
\* best are those of a trial that did not fail.
C13_FailedTrialKeptUnscoredNotBest ==
    /\ [](\A i \in DOMAIN t.trials :
             t.trials[i].failed => (t.trials[i].state = "FAIL" /\ t.trials[i].value = 0))
    /\ [][\A i \in DOMAIN t.trials : i \in DOMAIN t'.trials /\ t'.trials[i] = t.trials[i]]_vars
    /\ []((t.stage \notin {"", "optimize"} /\ \E i \in DOMAIN t.trials : ~t.trials[i].failed) =>
             /\ t.best_params.exists
             /\ \E i \in DOMAIN t.trials :
                   /\ ~t.trials[i].failed
                   /\ t.trials[i].state = "COMPLETE"
                   /\ t.best_params.fit_trial = i
                   /\ t.best_params.name = t.trials[i].name
                   /\ t.best_params.params = t.trials[i].params)

\* a run that ended, with a trial whose fit raised ValueError before a
\* trial that succeeded
C13_Witness ==
    /\ t.status = "done"
    /\ t.best_params.exists
    /\ \E i, j \in DOMAIN t.trials :
          /\ i < j
          /\ t.trials[i] = ReturnNan(i, t.trials[i].name, t.trials[i].params)
          /\ t.trials[j].state = "COMPLETE"

\* C14: once the search is over, the model attached to the best trial has
\* the parameters of that trial and the fit made in that trial, and so has
\* the model that run() logs.
C14_BestTrialKeepsItsModel ==
    (t.stage \notin {"", "optimize"} /\ Completed(t.trials) # {}) =>
        /\ get_model_by_name(BestTrial(t.trials).name, t.models).params
              = BestTrial(t.trials).params
        /\ get_model_by_name(BestTrial(t.trials).name, t.models).fit_trial
              = BestTrial(t.trials).number
        /\ t.logged_model.exists =>
              /\ t.logged_model.params = BestTrial(t.trials).params
              /\ t.logged_model.fit_trial = BestTrial(t.trials).number

\* the step that may come next in a run of n_folds folds over models
Follows(e1, e2, n_folds, models) ==
    IF e1.step = "init_result_df" THEN e2.step = "standardize_features"
    ELSE IF e1.step = "standardize_features" THEN e2.step = "select_features"
    ELSE IF e1.step = "select_features"
    THEN IF models = <<>> THEN e2.step = "save_results"
         ELSE e2.step = "params" /\ e2.model = 1
    ELSE IF e1.step = "params"
    THEN e2.step = "fit_fold" /\ e2.model = e1.model /\ e2.fold = 1
    ELSE IF e1.step = "fit_fold"
    THEN IF e1.fold < n_folds
         THEN e2.step = "fit_fold" /\ e2.model = e1.model /\ e2.fold = e1.fold + 1
         ELSE e2.step = "full_fit" /\ e2.model = e1.model
    ELSE IF e1.step = "full_fit"
    THEN IF e1.model < Len(models)
         THEN e2.step = "params" /\ e2.model = e1.model + 1
         ELSE e2.step = "save_results"
    ELSE FALSE

\* the steps come in the order of the run
InRunOrder ==
    /\ tr.events # <<>> => tr.events[1].step = "init_result_df"
    /\ \A i \in 1..(Len(tr.events) - 1) :
          Follows(tr.events[i], tr.events[i + 1], Len(c.cv_splits), tr.models)

\* C15: the steps of a run come in the order init, preprocessing, then for
\* each model of the list in turn its hyperparameters, its folds in fold
\* order, its full fit, and the saving last; and a fold of a model is fitted
\* only after the hyperparameters of that model were resolved.
C15_RunFollowsOrder ==
    /\ InRunOrder
    /\ \A i \in DOMAIN tr.events :
          tr.events[i].step = "fit_fold" =>
             \E j \in 1..(i - 1) :
                /\ tr.events[j].step = "params"
                /\ tr.events[j].model = tr.events[i].model
                /\ tr.events[j].resolved

\* C16: after a run that ended without failure every model of the list has
\* a prediction, not the sentinel, in both its columns on every row; test is
\* 1 on exactly the rows of X_test; cv_split is -1 on exactly those rows, and
\* on a training row it is the index of the one fold that validates the row.
C16_FullRunFillsTable ==
    tr.status = "done" =>
        /\ \A i \in DOMAIN tr.models : \A x \in Rows(df) :
              /\ tr.result_df.cols[tr.models[i]].pred[x] # Sentinel
              /\ tr.result_df.cols[tr.models[i]].proba[x] # Sentinel
        /\ \A x \in Rows(df) :
              /\ tr.result_df.test[x] = 1 <=> x \in Index(c.X_test)
              /\ tr.result_df.cv_split[x] = Sentinel <=> x \in Index(c.X_test)
              /\ x \notin Index(c.X_test) =>
                    \E i \in DOMAIN c.cv_splits :
                       /\ tr.result_df.cv_split[x] = i - 1
                       /\ \A j \in DOMAIN c.cv_splits : x \in ValRows(c, j) <=> j = i

\* every model of the list has had its full fit
AllModelsComplete ==
    \A i \in DOMAIN tr.models :
       \E e \in DOMAIN tr.events : tr.events[e].step = "full_fit" /\ tr.events[e].model = i

\* C17: a run writes the predictions file at most once, as its last step
\* after every model completed, and writes the whole table: while a run is
\* under way or after it failed it has written nothing, so a file on disk
\* is the table of a run that ended, with the columns of every model.  No
\* step changes or removes a parameter file that holds a record.
C17_PersistedOnceAfterAllModels ==
    /\ [](tr.csv.writes <= 1)
    /\ [](tr.csv.writes = 1 =>
             /\ tr.status = "done"
             /\ AllModelsComplete
             /\ tr.csv.df = tr.result_df)
    /\ [](tr.status \in {"running", "failed"} => tr.csv.writes = 0)
    /\ [](tr.csv.exists => \A i \in DOMAIN tr.models : tr.csv.df.cols[tr.models[i]].has)
    /\ [][/\ \A n \in ModelNames : h.files[n].valid => h'.files[n] = h.files[n]
          /\ tr'.csv # tr.csv => (lastOp'.op = "save_results" \/ tr'.csv.writes = 0)]_vars

\* the run failed in its second model after the first was tuned and its
\* parameter file written
C17_Witness ==
    /\ tr.status = "failed"
    /\ tr.m = 2
    /\ \E e \in DOMAIN tr.events : tr.events[e].step = "full_fit" /\ tr.events[e].model = 1
    /\ h.files[tr.models[1]].valid
    /\ tr.csv.writes = 0
    /\ ~tr.csv.exists

C19_CellWrittenAtMostOnce ==
    \A n \in ModelNames : \A x \in Rows(df) : tr.written[n][x] <= 1

\* a run ended in which every cell of two models was written
C19_Witness ==
    /\ tr.status = "done"
    /\ Len(tr.models) = 2
    /\ \A i \in DOMAIN tr.models : \A x \in Rows(df) : tr.written[tr.models[i]][x] = 1

\* the table has the rows of df, in the order of df, each with its id
HasRowsOf(table, d) ==
    /\ table.index = [i \in Rows(d) |-> i]
    /\ table.ids = [i \in Rows(d) |-> d[i].id]

\* C21: the result table, in memory and as saved, has one row per row of
\* the dataset in the order of the dataset, each with its id; no step of a
\* run adds, removes or reorders rows; and the prediction a row holds for
\* the model in work is the one the model made for that very row.
C21_ResultRowsFollowDataset ==
    /\ [](tr.result_df.has => HasRowsOf(tr.result_df, df))
    /\ [](tr.csv.writes = 1 => HasRowsOf(tr.csv.df, df))
    /\ [][tr.result_df.has =>
             /\ tr'.result_df.index = tr.result_df.index
             /\ tr'.result_df.ids = tr.result_df.ids]_vars
    /\ []((tr.m >= 1 /\ h.name = tr.models[tr.m]) =>
             \A x \in Rows(df) :
                \/ tr.result_df.cols[h.name].pred[x] = Sentinel
                \/ tr.result_df.cols[h.name].pred[x]
                      = predict_label_and_proba(h.params, Loc(c.X, {x}))[1].y)

\* a saved table in which a row comes before rows that were visited (by
\* an earlier fold, or by a fold when the row is a test row) before it
C21_Witness ==
    /\ tr.status = "done"
    /\ tr.csv.writes = 1
    /\ \E x, y \in Rows(df) :
          /\ x < y
          /\ tr.csv.df.cv_split[y] >= 0
          /\ tr.csv.df.cv_split[x] > tr.csv.df.cv_split[y]
    /\ \E x, y \in Rows(df) :
          /\ x < y
          /\ tr.csv.df.test[x] = 1
          /\ tr.csv.df.test[y] = 0
          /\ tr.csv.df.cols[tr.models[1]].pred[x] # Sentinel
          /\ tr.csv.df.cols[tr.models[1]].pred[y] # Sentinel

\* C22: a load of the split document that follows a load of the same
\* document leaves the dataset as it was: the same partitions and as many
\* stored train and validation folds as the document has.
C22_LoadIsIdempotent ==
    [][(/\ lastOp.op = "load_splits_from_json" /\ err = "none"
        /\ lastOp'.op = "load_splits_from_json" /\ err' = "none") =>
           /\ a' = a
           /\ c' = c
           /\ variant = "autorad" => Len(a'.data.train_folds) = Len(disk.train)
           /\ variant = "classrad" =>
                 /\ Len(c'.X_train_fold.list) = Len(disk.train)
                 /\ Len(c'.X_val_fold.list) = Len(disk.train)]_vars

\* C23: a trial has the attributes 'model' and 'AUC' exactly if the fit of
\* every fold succeeded in it; a trial without a value has neither; and the
\* best trial after the search has both, its 'AUC' being its value.
C23_AttrsIffFittedEveryFold ==
    /\ \A i \in DOMAIN t.trials :
          /\ t.trials[i].attrs <=> t.trials[i].fitted
          /\ t.trials[i].value = 0 => ~t.trials[i].attrs
    /\ (t.stage \notin {"", "optimize"} /\ Completed(t.trials) # {}) =>
          /\ BestTrial(t.trials).attrs
          /\ BestTrial(t.trials).auc = BestTrial(t.trials).value

\* C24: no label leakage in the recorded predictions. For every model, a
\* written training row was predicted by a model fitted on rows of the training
\* partition that do not include that row (the training part of a fold), and
\* a written test row was predicted by a model fitted on training-partition
\* rows only, none of them a test row.
C24_NoLeakageInPredictions ==
    \A n \in ModelNames : \A x \in Rows(df) :
        tr.written[n][x] >= 1 =>
            /\ tr.fitted_on[n][x] # {}
            /\ x \notin tr.fitted_on[n][x]
            /\ tr.fitted_on[n][x] \subseteq Index(c.X_train)
            /\ tr.fitted_on[n][x] \cap tr.test_indices = {}
            /\ x \in tr.test_indices => tr.fitted_on[n][x] = Index(c.X_train)
            /\ x \notin tr.test_indices =>
                   \E i \in DOMAIN c.cv_splits :
                      /\ x \in Index(ILoc(c.X_train, c.cv_splits[i][2]))
                      /\ tr.fitted_on[n][x] = Index(ILoc(c.X_train, c.cv_splits[i][1]))

\* a finished run in which a model has predictions on a training row and on
\* a test row, each from a fit that saw other rows
C24_Witness ==
    /\ tr.status = "done"
    /\ \E n \in ModelNames : \E x, y \in Rows(df) :
          /\ x \notin tr.test_indices /\ y \in tr.test_indices
          /\ tr.written[n][x] = 1 /\ tr.written[n][y] = 1
          /\ tr.fitted_on[n][x] # {} /\ tr.fitted_on[n][x] # tr.fitted_on[n][y]

====
